---- MODULE Spec2Model ----
(***************************************************************************)
(* State-machine model of src/src/reader.rs (rexpect's non-blocking       *)
(* reader): the pump thread spawned by NBReader::new, the mpsc channel,   *)
(* NBReader::read_into_buffer / read_until / try_read and the pure        *)
(* function find.                                                         *)
(*                                                                        *)
(* Strings are modelled as what a Rust String is: a sequence of UTF-8     *)
(* code units.  Lengths and match positions are byte offsets, and         *)
(* String::drain panics on an offset that is not a char boundary.         *)
(* The Regex variant of ReadUntil delegates to the external regex crate   *)
(* and is not modelled.  Time is counted in units of the loop's sleep     *)
(* interval (100 ms).                                                     *)
(***************************************************************************)
EXTENDS Integers, Sequences, FiniteSets, TLC

----------------------------------------------------------------------------
(* Bounds of the model *)

\* longest script of read results a source produces before it ends
MaxSrc == 3
\* longest buffer (in chars) given to find when it is checked in isolation
MaxBuf == 3
\* most members of an Any given to find when it is checked in isolation
MaxList == 3
\* longest script of read results of a source whose threads are scheduled fairly
MaxFair == 2

\* byte values a source may produce: one ASCII byte, one byte above 127
Alphabet == {97, 200}
\* raw_os_error codes a failing read may carry: EINTR and EIO
ErrCodes == {4, 5}

----------------------------------------------------------------------------
(* Values *)

\* PipedChar::Char(u8), PipedChar::EOF, PipeError::IO(err) as sent on the channel
Char(c) == [k |-> "Char", v |-> c]
PipedEOF == [k |-> "EOF", v |-> 0]
PipeErrorIO(e) == [k |-> "Err", v |-> e]

\* the raw_os_error value read_into_buffer treats as a remote hangup
HangupErrno == 5

\* Option<(usize, usize)> returned by find
NoMatch == [some |-> FALSE, start |-> 0, end |-> 0]
Span(s, e) == [some |-> TRUE, start |-> s, end |-> e]

\* enum ReadUntil (without Regex)
RUString(s) == [t |-> "String", s |-> s, n |-> 0, anys |-> <<>>]
RUEOF == [t |-> "EOF", s |-> <<>>, n |-> 0, anys |-> <<>>]
RUNBytes(n) == [t |-> "NBytes", s |-> <<>>, n |-> n, anys |-> <<>>]
RUAny(anys) == [t |-> "Any", s |-> <<>>, n |-> 0, anys |-> anys]

\* Option<Duration> of NBReader.timeout, in units of 100 ms
NoTimeout == [some |-> FALSE, d |-> 0]
SomeTimeout(d) == [some |-> TRUE, d |-> d]

----------------------------------------------------------------------------
(* Strings *)

\* `c as char` pushed on a String: the UTF-8 encoding of U+0000..U+00FF
EncodeChar(c) == IF c < 128 THEN <<c>> ELSE <<192 + (c \div 64), 128 + (c % 64)>>

RECURSIVE EncodeAll(_)
\* the String holding the chars cs (each given as its code point)
EncodeAll(cs) == IF cs = <<>> THEN <<>> ELSE EncodeChar(Head(cs)) \o EncodeAll(Tail(cs))

\* str::is_char_boundary
IsCharBoundary(str, i) ==
    \/ i = 0
    \/ i = Len(str)
    \/ i < Len(str) /\ ~(str[i + 1] \in 128..191)

\* the positions (byte offsets) at which s occurs in str
Occurrences(str, s) ==
    {p \in 0..(Len(str) - Len(s)) : SubSeq(str, p + 1, p + Len(s)) = s}

Min(S) == CHOOSE x \in S : \A y \in S : x <= y

\* the char a String of one char decodes to
DecodeChar(bs) == IF Len(bs) = 1 THEN bs[1] ELSE (bs[1] - 192) * 64 + (bs[2] - 128)

----------------------------------------------------------------------------
(* find *)

\* str::find(&String) mapped to (pos, pos + s.len())
FindString(s, buffer) ==
    IF Occurrences(buffer, s) = {} THEN NoMatch
    ELSE LET pos == Min(Occurrences(buffer, s)) IN Span(pos, pos + Len(s))

\* a search for EOF that does not wait for the end of the stream
FindEOF_Always(buffer, eof) == Span(0, Len(buffer))

\* ReadUntil::EOF: the whole buffer once eof is set
FindEOF(buffer, eof) ==
    IF eof THEN Span(0, Len(buffer)) ELSE NoMatch

\* a search whose short final read forgets `!buffer.is_empty()`
FindNBytes_NoEmptyCheck(n, buffer, eof) ==
    IF n <= Len(buffer) THEN Span(0, n)
    ELSE IF eof THEN Span(0, Len(buffer))
    ELSE NoMatch

\* ReadUntil::NBytes: n bytes, or what is left at the end of the stream
FindNBytes(n, buffer, eof) ==
    IF n <= Len(buffer) THEN Span(0, n)
    ELSE IF eof /\ buffer # <<>> THEN Span(0, Len(buffer))
    ELSE NoMatch

\* a comparison that forgets the tie-break on the end
CmpGreater_NoTie(a, b) == a.start > b.start

\* the comparison closure handed to min_by: TRUE when a orders after b
CmpGreater(a, b) ==
    IF a.start = b.start THEN a.end > b.end ELSE a.start > b.start

RECURSIVE MinByFrom(_, _)
\* Iterator::min_by: a reduce that keeps the earlier element unless it is Greater
MinByFrom(best, rest) ==
    IF rest = <<>> THEN best
    ELSE IF CmpGreater(best, Head(rest)) THEN MinByFrom(Head(rest), Tail(rest))
    ELSE MinByFrom(best, Tail(rest))

\* an Any that takes the first member that matches, in list order
FindAny_First(spans) ==
    LET found == SelectSeq(spans, LAMBDA m : m.some)
    IN IF found = <<>> THEN NoMatch ELSE Head(found)

\* filter_map(...).min_by(...) over the spans of the members, NoMatch dropped
FindAny(spans) ==
    LET found == SelectSeq(spans, LAMBDA m : m.some)
    IN IF found = <<>> THEN NoMatch ELSE MinByFrom(Head(found), Tail(found))

RECURSIVE find(_, _, _)
find(needle, buffer, eof) ==
    CASE needle.t = "String" -> FindString(needle.s, buffer)
      [] needle.t = "EOF" -> FindEOF(buffer, eof)
      [] needle.t = "NBytes" -> FindNBytes(needle.n, buffer, eof)
      [] needle.t = "Any" ->
            FindAny([i \in 1..Len(needle.anys) |-> find(needle.anys[i], buffer, eof)])

----------------------------------------------------------------------------
(* State *)

VARIABLES
    source,     \* read results the source will still produce (Char or Err)
    srcEnd,     \* "eof": read returns Ok(0) once the script is used up; "block": it blocks
    pump,       \* "run" while the pump thread loops, "done" once it has returned
    queue,      \* the mpsc channel: events sent and not yet received
    alive,      \* the NBReader (and with it the Receiver) has not been dropped
    buffer,     \* NBReader.buffer
    eof,        \* NBReader.eof
    timeout,    \* NBReader.timeout
    pc,         \* where the consumer is: "idle", "loop", "ret", "panicked"
    op,         \* the call in progress: "read_until", "try_read", or "none"
    needle,     \* the needle of the read_until call in progress
    elapsed,    \* start.elapsed() of the read_until call in progress
    result,     \* value of the call that has just returned (pc = "ret")
    pumped,     \* history: the read results the pump has taken from the source
    returned,   \* history: everything handed to the caller, concatenated
    callRest,   \* history: the unconsumed stream when the call in progress began
    eofDone,    \* history: a read_until(EOF) has succeeded
    probe       \* input and output of find when it is checked in isolation

vars == <<source, srcEnd, pump, queue, alive, buffer, eof, timeout, pc, op,
          needle, elapsed, result, pumped, returned, callRest, eofDone, probe>>

pumpVars == <<source, srcEnd, pump, queue, pumped>>
callVars == <<pc, op, needle, elapsed, result, callRest>>

RECURSIVE SeqsUpTo(_, _)
\* all sequences over S of length at most n
SeqsUpTo(S, n) ==
    IF n = 0 THEN {<<>>}
    ELSE LET shorter == SeqsUpTo(S, n - 1)
         IN shorter \cup {Append(q, x) : q \in {r \in shorter : Len(r) = n - 1}, x \in S}

\* what one read of the source can give besides Ok(0)
SrcItems == {Char(c) : c \in Alphabet} \cup {PipeErrorIO(e) : e \in ErrCodes}
Scripts == SeqsUpTo(SrcItems, MaxSrc)
\* the scripts of a source that never fails
CleanScripts == SeqsUpTo({Char(c) : c \in Alphabet}, MaxSrc)

\* the timeouts a reader is constructed with
Timeouts == {NoTimeout, SomeTimeout(1)}

\* the Strings of one char the needles are built from
Ca == EncodeChar(97)
CH == EncodeChar(200)

\* the needles the consumer asks for, on any source
Needles ==
    { RUEOF, RUNBytes(0), RUNBytes(1), RUString(<<>>), RUString(Ca),
      RUAny(<<RUString(CH), RUNBytes(2)>>) }

\* the needles the consumer asks for on a source that never fails
CleanNeedles ==
    { RUEOF, RUNBytes(1), RUNBytes(2), RUString(Ca), RUString(CH),
      RUAny(<<RUString(Ca), RUString(CH)>>),
      RUAny(<<RUString(CH), RUString(Ca)>>),
      RUAny(<<RUString(Ca \o CH \o Ca), RUString(CH)>>),
      RUAny(<<RUString(CH), RUString(Ca \o CH \o Ca)>>) }

NoResult == [kind |-> "none", first |-> <<>>, second |-> <<>>, got |-> <<>>,
             ch |-> 0, exit_code |-> "None"]
\* Ok((first, second)) of read_until
ROk(first, second) == [NoResult EXCEPT !.kind = "Ok", !.first = first, !.second = second]
\* Err(Error::EOF { expected, got, exit_code: None })
RErrEOF(got) == [NoResult EXCEPT !.kind = "EOF", !.got = got]
\* Err(Error::Timeout { expected, got, timeout })
RErrTimeout(got) == [NoResult EXCEPT !.kind = "Timeout", !.got = got]
\* Some(char) and None of try_read
RSome(c) == [NoResult EXCEPT !.kind = "Some", !.ch = c]
RNone == [NoResult EXCEPT !.kind = "None"]
\* the call did not return: String::drain panicked
RPanic == [NoResult EXCEPT !.kind = "panic"]

NoProbe == [needle |-> RUEOF, buffer |-> <<>>, eof |-> FALSE, done |-> FALSE, out |-> NoMatch]

RECURSIVE BytesOf(_)
\* the byte values carried by the Char events of a sequence of events
BytesOf(evs) ==
    IF evs = <<>> THEN <<>>
    ELSE IF Head(evs).k = "Char" THEN <<Head(evs).v>> \o BytesOf(Tail(evs))
    ELSE BytesOf(Tail(evs))

\* buffer, queue and source read as one stream of text: what is still to be consumed
Unconsumed == buffer \o EncodeAll(BytesOf(queue)) \o EncodeAll(BytesOf(source))

\* the state NBReader::new returns, but for the source and the timeout
InitReader ==
    /\ pump = "run"
    /\ queue = <<>>
    /\ alive = TRUE
    /\ buffer = <<>>
    /\ eof = FALSE
    /\ pc = "idle"
    /\ op = "none"
    /\ needle = RUEOF
    /\ elapsed = 0
    /\ result = NoResult
    /\ pumped = <<>>
    /\ returned = <<>>
    /\ callRest = <<>>
    /\ eofDone = FALSE

Init ==
    /\ source \in Scripts
    /\ srcEnd \in {"eof", "block"}
    /\ timeout \in Timeouts
    /\ InitReader
    /\ probe = NoProbe

----------------------------------------------------------------------------
(* The pump thread, NBReader::new lines 126-149.  A step is one turn of its *)
(* loop: the blocking read and the send of what it gave.                    *)

\* Ok(_): one byte read and sent
PumpChar ==
    /\ pump = "run" /\ alive
    /\ source # <<>> /\ Head(source).k = "Char"
    /\ queue' = Append(queue, Char(Head(source).v))
    /\ pumped' = Append(pumped, Head(source))
    /\ source' = Tail(source)
    /\ UNCHANGED <<srcEnd, pump, alive, buffer, eof, timeout, returned, eofDone, probe>>
    /\ UNCHANGED callVars

\* Err(error): the error is sent and the loop goes on
PumpErr ==
    /\ pump = "run" /\ alive
    /\ source # <<>> /\ Head(source).k = "Err"
    /\ queue' = Append(queue, PipeErrorIO(Head(source).v))
    /\ pumped' = Append(pumped, Head(source))
    /\ source' = Tail(source)
    /\ UNCHANGED <<srcEnd, pump, alive, buffer, eof, timeout, returned, eofDone, probe>>
    /\ UNCHANGED callVars

\* Ok(0): EOF is sent and the loop is left
PumpEOF ==
    /\ pump = "run" /\ alive
    /\ source = <<>> /\ srcEnd = "eof"
    /\ queue' = Append(queue, PipedEOF)
    /\ pump' = "done"
    /\ UNCHANGED <<source, srcEnd, pumped, alive, buffer, eof, timeout, returned, eofDone, probe>>
    /\ UNCHANGED callVars

\* a pump that goes on reading after a send has failed
PumpSendError_GoesOn ==
    /\ pump = "run" /\ ~alive
    /\ source # <<>> \/ srcEnd = "eof"
    /\ source' = IF source # <<>> THEN Tail(source) ELSE source
    /\ pumped' = IF source # <<>> THEN Append(pumped, Head(source)) ELSE pumped
    /\ UNCHANGED <<srcEnd, pump, queue, alive, buffer, eof, timeout, returned, eofDone, probe>>
    /\ UNCHANGED callVars

\* any read result, but the Receiver is gone: send fails and `?` ends the thread
PumpSendError ==
    /\ pump = "run" /\ ~alive
    /\ source # <<>> \/ srcEnd = "eof"
    /\ pump' = "done"
    /\ source' = IF source # <<>> THEN Tail(source) ELSE source
    /\ pumped' = IF source # <<>> THEN Append(pumped, Head(source)) ELSE pumped
    /\ UNCHANGED <<srcEnd, queue, alive, buffer, eof, timeout, returned, eofDone, probe>>
    /\ UNCHANGED callVars

----------------------------------------------------------------------------
(* NBReader *)

\* one turn of the while-let loop of read_into_buffer: the match on from_channel
RibEvent(st, ev) ==
    CASE ev.k = "Char" -> [st EXCEPT !.buffer = st.buffer \o EncodeChar(ev.v)]
      [] ev.k = "EOF" -> [st EXCEPT !.eof = TRUE]
      [] ev.k = "Err" -> [st EXCEPT !.eof = (ev.v = HangupErrno)]

RECURSIVE RibLoop(_, _)
\* the while-let loop of read_into_buffer: try_recv until the channel is empty
RibLoop(st, q) ==
    IF q = <<>> THEN st ELSE RibLoop(RibEvent(st, Head(q)), Tail(q))

\* a read_into_buffer without the early return of line 162
read_into_buffer_NoGuard(buf, e, q) ==
    [RibLoop([buffer |-> buf, eof |-> e, queue |-> q], q) EXCEPT !.queue = <<>>]

\* a read_into_buffer whose early return throws away what waits in the channel
read_into_buffer_Flush(buf, e, q) ==
    IF e THEN [buffer |-> buf, eof |-> e, queue |-> <<>>]
    ELSE [RibLoop([buffer |-> buf, eof |-> e, queue |-> q], q) EXCEPT !.queue = <<>>]

\* read_into_buffer: buffer, eof and channel after the call
read_into_buffer(buf, e, q) ==
    IF e THEN [buffer |-> buf, eof |-> e, queue |-> q]
    ELSE [RibLoop([buffer |-> buf, eof |-> e, queue |-> q], q) EXCEPT !.queue = <<>>]

RECURSIVE Escape(_)
\* the three replace calls that build the `got` of a Timeout error
Escape(str) ==
    IF str = <<>> THEN <<>>
    ELSE LET c == Head(str)
         IN (CASE c = 10 -> <<96, 92, 110, 96, 10>>
               [] c = 13 -> <<96, 92, 114, 96>>
               [] c = 27 -> <<96, 94, 96>>
               [] OTHER -> <<c>>) \o Escape(Tail(str))

\* String::drain(..n) can be built: n is within the string and on a char boundary
DrainOk(str, n) == n <= Len(str) /\ IsCharBoundary(str, n)
\* what drain(..n) yields, and what it leaves
DrainHead(str, n) == SubSeq(str, 1, n)
DrainRest(str, n) == SubSeq(str, n + 1, Len(str))

\* a comparison with >= for >
TimedOut_AtLeast(t, el) == t.some /\ el >= t.d

\* the comparison of line 252
TimedOut(t, el) == t.some /\ el > t.d

\* The clock of a call counts sleep intervals, rounded up.  It is followed
\* only as far as line 252 can tell: up to one past the configured timeout,
\* and not at all for a reader without one.
ClockCap(t) == IF t.some THEN t.d + 1 ELSE 0

\* a clock that stands still
Later_Stuck(t, el, d) == el

Later(t, el, d) == IF el + d < ClockCap(t) THEN el + d ELSE ClockCap(t)

\* a second drain that takes the end position for a length
SecondLen_End(m) == m.end

\* length of the second drain of line 235
SecondLen(m) == m.end - m.start

\* an iteration that tests eof before it looks at the match
Outcome_EofFirst(m, e, t, el) ==
    IF e THEN "eof"
    ELSE IF m.some THEN "match"
    ELSE IF TimedOut(t, el) THEN "timeout"
    ELSE "sleep"

\* what an iteration of the loop of read_until does once the channel is drained:
\* the order of the tests of lines 233, 242 and 251
Outcome(m, e, t, el) ==
    IF m.some THEN "match"
    ELSE IF e THEN "eof"
    ELSE IF TimedOut(t, el) THEN "timeout"
    ELSE "sleep"

\* read_until is called: start is taken
ReadUntil(n) ==
    /\ pc = "idle" /\ alive
    /\ pc' = "loop"
    /\ op' = "read_until"
    /\ needle' = n
    /\ elapsed' = 0
    /\ result' = NoResult
    /\ callRest' = Unconsumed
    /\ UNCHANGED <<alive, buffer, eof, timeout, returned, eofDone, probe>>
    /\ UNCHANGED pumpVars

\* One iteration of the loop of read_until, lines 232-266; d is the time that
\* has passed since the clock was last looked at.  An iteration that neither
\* matches nor fails ends with the sleep of line 266.
Iterate(d) ==
    /\ pc = "loop"
    /\ LET st == read_into_buffer(buffer, eof, queue)
           m == find(needle, st.buffer, st.eof)
           afterFirst == DrainRest(st.buffer, m.start)
           now == Later(timeout, elapsed, d)
           out == Outcome(m, st.eof, timeout, now)
       IN /\ queue' = st.queue
          /\ eof' = st.eof
          /\ CASE out = "match" /\ ~DrainOk(st.buffer, m.start) ->
                    /\ pc' = "panicked" /\ alive' = FALSE /\ result' = RPanic
                    /\ buffer' = st.buffer
                    /\ elapsed' = now
                    /\ UNCHANGED <<returned, eofDone>>
               [] out = "match" /\ DrainOk(st.buffer, m.start)
                               /\ ~DrainOk(afterFirst, SecondLen(m)) ->
                    /\ pc' = "panicked" /\ alive' = FALSE /\ result' = RPanic
                    /\ buffer' = afterFirst
                    /\ elapsed' = now
                    /\ UNCHANGED <<returned, eofDone>>
               [] out = "match" /\ DrainOk(st.buffer, m.start)
                               /\ DrainOk(afterFirst, SecondLen(m)) ->
                    /\ pc' = "ret"
                    /\ result' = ROk(DrainHead(st.buffer, m.start),
                                     DrainHead(afterFirst, SecondLen(m)))
                    /\ buffer' = DrainRest(afterFirst, SecondLen(m))
                    /\ returned' = returned \o DrainHead(st.buffer, m.start)
                                             \o DrainHead(afterFirst, SecondLen(m))
                    /\ eofDone' = (eofDone \/ needle.t = "EOF")
                    /\ elapsed' = now
                    /\ UNCHANGED alive
               [] out = "eof" ->
                    /\ pc' = "ret" /\ result' = RErrEOF(st.buffer)
                    /\ buffer' = st.buffer
                    /\ elapsed' = now
                    /\ UNCHANGED <<alive, returned, eofDone>>
               [] out = "timeout" ->
                    /\ pc' = "ret" /\ result' = RErrTimeout(Escape(st.buffer))
                    /\ buffer' = st.buffer
                    /\ elapsed' = now
                    /\ UNCHANGED <<alive, returned, eofDone>>
               [] out = "sleep" ->
                    /\ pc' = "loop"
                    /\ buffer' = st.buffer
                    /\ elapsed' = Later(timeout, now, 1)
                    /\ UNCHANGED <<alive, returned, eofDone, result>>
    /\ UNCHANGED <<source, srcEnd, pump, pumped>>
    /\ UNCHANGED <<timeout, op, needle, callRest, probe>>

\* try_read, lines 272-280
TryRead ==
    /\ pc = "idle" /\ alive
    /\ op' = "try_read"
    /\ callRest' = Unconsumed
    /\ LET st == read_into_buffer(buffer, eof, queue)
       IN /\ queue' = st.queue
          /\ eof' = st.eof
          /\ IF st.buffer # <<>>
             THEN IF ~DrainOk(st.buffer, 1)
                  THEN /\ pc' = "panicked" /\ alive' = FALSE /\ result' = RPanic
                       /\ buffer' = st.buffer
                       /\ UNCHANGED returned
                  ELSE /\ pc' = "ret"
                       /\ result' = RSome(DecodeChar(DrainHead(st.buffer, 1)))
                       /\ buffer' = DrainRest(st.buffer, 1)
                       /\ returned' = returned \o DrainHead(st.buffer, 1)
                       /\ UNCHANGED alive
             ELSE /\ pc' = "ret" /\ result' = RNone
                  /\ buffer' = st.buffer
                  /\ UNCHANGED <<alive, returned>>
    /\ UNCHANGED <<source, srcEnd, pump, pumped>>
    /\ UNCHANGED <<timeout, needle, elapsed, eofDone, probe>>

\* the caller takes the value of the call that has returned
Return ==
    /\ pc = "ret"
    /\ pc' = "idle"
    /\ op' = "none"
    /\ needle' = RUEOF
    /\ elapsed' = 0
    /\ result' = NoResult
    /\ callRest' = <<>>
    /\ UNCHANGED <<alive, buffer, eof, timeout, returned, eofDone, probe>>
    /\ UNCHANGED pumpVars

\* the NBReader goes out of scope
DropReader ==
    /\ pc = "idle" /\ alive
    /\ alive' = FALSE
    /\ UNCHANGED <<buffer, eof, timeout, returned, eofDone, probe>>
    /\ UNCHANGED callVars
    /\ UNCHANGED pumpVars

\* the delays the clock can show between two looks at it
Delays == {0, 1, 2}

Next ==
    \/ PumpChar
    \/ PumpErr
    \/ PumpEOF
    \/ PumpSendError
    \/ \E n \in Needles : ReadUntil(n)
    \/ \E d \in Delays : Iterate(d)
    \/ TryRead
    \/ Return
    \/ DropReader

\* any source, any timeout, any calls
Spec == Init /\ [][Next]_vars

----------------------------------------------------------------------------
(* A reader without a timeout over a finite source that never fails, such as *)
(* the io::Cursor of the tests                                               *)

InitClean ==
    /\ source \in CleanScripts
    /\ srcEnd = "eof"
    /\ timeout = NoTimeout
    /\ InitReader
    /\ probe = NoProbe

NextClean ==
    \/ PumpChar
    \/ PumpEOF
    \/ \E n \in CleanNeedles : ReadUntil(n)
    \/ Iterate(0)
    \/ TryRead
    \/ Return

SpecClean == InitClean /\ [][NextClean]_vars

----------------------------------------------------------------------------
(* find on its own *)

\* the Strings find is given as buffers
ProbeBuffers == {EncodeAll(cs) : cs \in SeqsUpTo(Alphabet, MaxBuf)}

\* needles that are no Any
ProbeLeaves ==
    { RUEOF, RUNBytes(0), RUNBytes(3),
      RUString(<<>>), RUString(Ca), RUString(CH), RUString(Ca \o CH) }

\* an Any inside an Any
ProbeInner ==
    { RUAny(<<>>), RUAny(<<RUString(Ca \o CH), RUString(Ca)>>),
      RUAny(<<RUNBytes(3), RUString(CH)>>) }

ProbeNeedles ==
    ProbeLeaves \cup {RUAny(l) : l \in SeqsUpTo(ProbeLeaves, MaxList)}
                \cup {RUAny(l) : l \in SeqsUpTo(ProbeInner \cup {RUString(Ca), RUNBytes(1)}, 2)}

InitFind ==
    /\ source = <<>>
    /\ srcEnd = "block"
    /\ timeout = NoTimeout
    /\ InitReader
    /\ probe \in {[needle |-> n, buffer |-> b, eof |-> e, done |-> FALSE, out |-> NoMatch] :
                    n \in ProbeNeedles, b \in ProbeBuffers, e \in BOOLEAN}

\* find is applied to the input
ProbeFind ==
    /\ ~probe.done
    /\ probe' = [probe EXCEPT !.done = TRUE,
                              !.out = find(probe.needle, probe.buffer, probe.eof)]
    /\ UNCHANGED <<alive, buffer, eof, timeout, returned, eofDone>>
    /\ UNCHANGED callVars
    /\ UNCHANGED pumpVars

NextFind == ProbeFind

SpecFind == InitFind /\ [][NextFind]_vars

----------------------------------------------------------------------------
(* Vocabulary of the properties *)

\* a call of o has ended: it returned, or it panicked
Ended(o) == pc \in {"ret", "panicked"} /\ op = o

\* this step is an iteration of the loop of read_until (no step of the pump)
IterStep == pc = "loop" /\ pumped' = pumped /\ pump' = pump

\* this step is a call of try_read
TryReadStep == pc = "idle" /\ op' = "try_read"

\* no read of the source fails with the remote-hangup error
NoHangup ==
    \A i \in DOMAIN (pumped \o source) :
        ~((pumped \o source)[i].k = "Err" /\ (pumped \o source)[i].v = HangupErrno)

\* number of chars of a String
CharCount(str) == Cardinality({i \in DOMAIN str : ~(str[i] \in 128..191)})

\* the first j chars of a String that has at least j
TakeChars(str, j) ==
    LET l == CHOOSE l \in 0..Len(str) :
                 IsCharBoundary(str, l) /\ CharCount(SubSeq(str, 1, l)) = j
    IN SubSeq(str, 1, l)

\* where s first occurs in the stream the call in progress began with
FirstAt(s) == Min(Occurrences(callRest, s))
Occurs(s) == Occurrences(callRest, s) # {}

\* the permutations of 1..n
Perms(n) == {f \in [1..n -> 1..n] : \A i, j \in 1..n : f[i] = f[j] => i = j}

\* span a is at least as good as span b: further left, or as far left and no longer
Leftmost(a, b) == a.start < b.start \/ (a.start = b.start /\ a.end <= b.end)

----------------------------------------------------------------------------
(* C1 *)

\* C1: byte conservation.  Right after every drain (an iteration of read_until
\* or a try_read), what has been returned to the caller followed by the buffer
\* is exactly what the pump has read from the source, in stream order.
C1_ByteConservation ==
    [][(IterStep \/ TryReadStep) =>
          returned' \o buffer' = EncodeAll(BytesOf(pumped'))]_vars

----------------------------------------------------------------------------
(* C2 *)

\* C2: a read_until(String(p)) without a timeout, begun when the unconsumed
\* stream of a source that does not hang up holds p exactly once, ends with
\* Ok((text before p, p)); afterwards exactly the text after p is still to be
\* consumed, and none of it is cut off from the reader.
C2_LiteralOnce ==
    (/\ Ended("read_until") /\ needle.t = "String"
     /\ ~timeout.some /\ NoHangup
     /\ Cardinality(Occurrences(callRest, needle.s)) = 1)
    => /\ result = ROk(SubSeq(callRest, 1, FirstAt(needle.s)), needle.s)
       /\ Unconsumed = SubSeq(callRest, FirstAt(needle.s) + Len(needle.s) + 1, Len(callRest))
       /\ eof => (queue = <<>> /\ source = <<>>)

\* a literal found in the middle of the stream: text before it, text after it
C2_Witness ==
    /\ Ended("read_until") /\ needle = RUString(CH)
    /\ ~timeout.some /\ NoHangup
    /\ callRest = Ca \o CH \o Ca
    /\ result = ROk(Ca, CH)
    /\ Unconsumed = Ca

----------------------------------------------------------------------------
(* C3 *)

\* C3: find(Any(list)) gives the member span that starts leftmost and, among
\* those, ends first; it gives no match exactly when no member matches; and
\* every permutation of the list gives the same.
C3_AnyLeftmostShortest ==
    (probe.done /\ probe.needle.t = "Any")
    => LET l == probe.needle.anys
           M == {m \in {find(l[i], probe.buffer, probe.eof) : i \in 1..Len(l)} : m.some}
       IN /\ probe.out.some <=> M # {}
          /\ probe.out.some => (probe.out \in M /\ \A m \in M : Leftmost(probe.out, m))
          /\ \A f \in Perms(Len(l)) :
                find(RUAny([i \in 1..Len(l) |-> l[f[i]]]), probe.buffer, probe.eof) = probe.out

\* two members match at the same start, the longer one comes first in the
\* list, and the shorter one is the result
C3_Witness ==
    /\ probe.done /\ probe.needle.t = "Any"
    /\ \E i, j \in 1..Len(probe.needle.anys) :
          LET a == find(probe.needle.anys[i], probe.buffer, probe.eof)
              b == find(probe.needle.anys[j], probe.buffer, probe.eof)
          IN /\ i < j /\ a.some /\ b.some
             /\ a.start = b.start /\ a.end > b.end
             /\ probe.out = b

----------------------------------------------------------------------------
(* C4 *)

\* the call in progress asked for Any of two Strings, both in the stream, their
\* first occurrences at different offsets
TwoLiterals ==
    /\ Ended("read_until") /\ needle.t = "Any" /\ Len(needle.anys) = 2
    /\ \A i \in 1..2 : needle.anys[i].t = "String" /\ Occurs(needle.anys[i].s)
    /\ FirstAt(needle.anys[1].s) # FirstAt(needle.anys[2].s)
    /\ ~timeout.some /\ NoHangup

\* of the two Strings, the one whose first occurrence starts earlier, and the other
Earlier ==
    IF FirstAt(needle.anys[1].s) < FirstAt(needle.anys[2].s)
    THEN needle.anys[1].s ELSE needle.anys[2].s
Other ==
    IF FirstAt(needle.anys[1].s) < FirstAt(needle.anys[2].s)
    THEN needle.anys[2].s ELSE needle.anys[1].s

\* C4 as stated: read_until(Any([A, B])) returns the match that starts at the
\* earlier offset of the stream, whatever the order of the list and however
\* pump and consumer interleave.
C4_EarlierOffsetWins ==
    TwoLiterals => result = ROk(SubSeq(callRest, 1, FirstAt(Earlier)), Earlier)

\* C4 as amended: the same, provided the match that starts earlier does not end
\* after the one that starts later.
C4_EarlierWinsIfEndsFirst ==
    (TwoLiterals /\ FirstAt(Earlier) + Len(Earlier) <= FirstAt(Other) + Len(Other))
    => result = ROk(SubSeq(callRest, 1, FirstAt(Earlier)), Earlier)

\* the later String of the stream stands first in the list, both were in the
\* buffer when the search ran, and the earlier one is returned
C4_Witness ==
    /\ TwoLiterals
    /\ needle = RUAny(<<RUString(CH), RUString(Ca)>>)
    /\ callRest = Ca \o CH
    /\ result = ROk(<<>>, Ca)
    /\ buffer = CH

----------------------------------------------------------------------------
(* C5 *)

\* C5: on a finite source that ends cleanly, a read_until(NBytes(n)), n >= 1,
\* without a timeout, begun while bytes remain, returns an empty prefix and
\* the next min(n, bytes remaining) bytes of the stream, and leaves the rest.
C5_NBytesPartition ==
    (/\ Ended("read_until") /\ needle.t = "NBytes" /\ needle.n >= 1
     /\ ~timeout.some /\ NoHangup /\ srcEnd = "eof"
     /\ callRest # <<>>)
    => LET chunk == TakeChars(callRest, Min({needle.n, CharCount(callRest)}))
       IN /\ result = ROk(<<>>, chunk)
          /\ Unconsumed = SubSeq(callRest, Len(chunk) + 1, Len(callRest))

----------------------------------------------------------------------------
(* C6 *)

\* C6 as stated: whenever find(NBytes(n)) gives a span, n = 0 included, the
\* span is not empty.
C6_NBytesNeverEmpty ==
    (probe.done /\ probe.needle.t = "NBytes" /\ probe.out.some)
    => probe.out.end > probe.out.start

\* C6 as amended: whenever find(NBytes(n)) gives a span and n >= 1, the span
\* is not empty.
C6_NBytesNeverEmptyFrom1 ==
    (probe.done /\ probe.needle.t = "NBytes" /\ probe.needle.n >= 1 /\ probe.out.some)
    => probe.out.end > probe.out.start

\* the short final read: at the end of the stream, fewer bytes than asked for
C6_Witness ==
    /\ probe.done /\ probe.needle = RUNBytes(3) /\ probe.eof
    /\ Len(probe.buffer) \in 1..2
    /\ probe.out = Span(0, Len(probe.buffer))

----------------------------------------------------------------------------
(* C7 *)

\* C7: a read_until(EOF) succeeds only once eof is set; and without a timeout,
\* on a source that ends with Ok(0) and does not hang up, it ends with an
\* empty prefix and the whole unconsumed stream as the match, the buffer
\* empty, nothing left in channel or source.
C7_EOFReturnsRest ==
    (Ended("read_until") /\ needle.t = "EOF")
    => /\ result.kind = "Ok" => eof
       /\ (~timeout.some /\ NoHangup /\ srcEnd = "eof")
          => /\ result = ROk(<<>>, callRest)
             /\ buffer = <<>> /\ queue = <<>> /\ source = <<>> /\ pump = "done"
             /\ returned = EncodeAll(BytesOf(pumped))

\* an EOF read after an earlier read took part of the stream
C7_Witness ==
    /\ Ended("read_until") /\ needle.t = "EOF"
    /\ ~timeout.some /\ NoHangup /\ srcEnd = "eof"
    /\ result.kind = "Ok" /\ result.second # <<>>
    /\ returned # result.second

----------------------------------------------------------------------------
(* C8 *)

\* C8 as stated: once a read_until(EOF) has succeeded, every read_until with
\* an NBytes or a String needle fails with Error::EOF.
C8_ExhaustedAfterEOF ==
    (Ended("read_until") /\ eofDone /\ needle.t \in {"NBytes", "String"})
    => result.kind = "EOF"

\* C8 as amended: the same for every NBytes(n) with n >= 1 and every String
\* that is not empty.
C8_ExhaustedAfterEOFNonEmpty ==
    (/\ Ended("read_until") /\ eofDone
     /\ \/ needle.t = "NBytes" /\ needle.n >= 1
        \/ needle.t = "String" /\ needle.s # <<>>)
    => result.kind = "EOF"

\* an EOF read returned text, and the NBytes read after it failed
C8_Witness ==
    /\ Ended("read_until") /\ eofDone /\ needle = RUNBytes(1)
    /\ returned # <<>>
    /\ result = RErrEOF(<<>>)

----------------------------------------------------------------------------
(* C9 *)

\* C9: an iteration of read_until ends the call with Error::EOF exactly when
\* the search on the buffer it has just drained finds nothing and eof is set;
\* the error carries that buffer and no exit code.
C9_Exhausted ==
    [][IterStep =>
          LET st == read_into_buffer(buffer, eof, queue)
              nomatch == ~find(needle, st.buffer, st.eof).some
          IN /\ (pc' = "ret" /\ result'.kind = "EOF") <=> (nomatch /\ st.eof)
             /\ result'.kind = "EOF"
                => /\ eof'
                   /\ result'.got = st.buffer /\ buffer' = st.buffer
                   /\ result'.exit_code = "None"]_vars

\* an Error::EOF that carries text
C9_Witness ==
    /\ Ended("read_until") /\ result.kind = "EOF"
    /\ result.got # <<>> /\ result.got = buffer

----------------------------------------------------------------------------
(* C10 *)

\* C10: an iteration of read_until ends the call with Error::Timeout only if a
\* timeout is configured, the clock is past it, the search on the buffer just
\* drained finds nothing and eof is not set; and a reader without a timeout
\* never gets Error::Timeout and gets no result at all from an iteration
\* that finds nothing while eof is not set.
C10_Timeout ==
    [][IterStep =>
          LET st == read_into_buffer(buffer, eof, queue)
              nomatch == ~find(needle, st.buffer, st.eof).some
          IN /\ result'.kind = "Timeout"
                => /\ timeout.some /\ elapsed' > timeout.d
                   /\ nomatch /\ ~st.eof /\ ~eof'
             /\ ~timeout.some
                => /\ result'.kind # "Timeout"
                   /\ (nomatch /\ ~st.eof) => (pc' = "loop" /\ result' = NoResult)]_vars

\* an Error::Timeout of a reader with a timeout of one interval, after text arrived
C10_Witness ==
    /\ Ended("read_until") /\ result.kind = "Timeout"
    /\ timeout = SomeTimeout(1) /\ elapsed = 2
    /\ result.got # <<>>

----------------------------------------------------------------------------
(* Scheduling: a thread that can take a step eventually takes one.  The     *)
(* consumer in the loop of read_until wakes from its sleep, and a read of   *)
(* the pump that has something to return returns.                           *)

\* a step of the pump thread
PumpStep == PumpChar \/ PumpErr \/ PumpEOF \/ PumpSendError

\* an iteration of the loop of read_until, whatever the clock shows
IterateStep == \E d \in Delays : Iterate(d)

\* the needles of the calls whose termination is followed
FairNeedles == {RUEOF, RUNBytes(2), RUString(Ca)}

InitFair ==
    /\ source \in SeqsUpTo(SrcItems, MaxFair)
    /\ srcEnd \in {"eof", "block"}
    /\ timeout \in Timeouts
    /\ InitReader
    /\ probe = NoProbe

NextFair ==
    \/ PumpChar
    \/ PumpErr
    \/ PumpEOF
    \/ PumpSendError
    \/ \E n \in FairNeedles : ReadUntil(n)
    \/ IterateStep
    \/ Return
    \/ DropReader

SpecFair == InitFair /\ [][NextFair]_vars /\ WF_vars(PumpStep) /\ WF_vars(IterateStep)

----------------------------------------------------------------------------
(* C11 *)

\* the needle n matches on no prefix of str as long as eof is not set
NeverPresent(n, str) ==
    \A k \in 0..Len(str) : ~find(n, SubSeq(str, 1, k), FALSE).some

\* a read_until call, on a reader with a timeout, for a needle that the
\* stream of a source that neither ends nor hangs up never satisfies
HopelessCall ==
    /\ pc = "loop" /\ op = "read_until"
    /\ timeout.some
    /\ srcEnd = "block" /\ NoHangup
    /\ NeverPresent(needle, callRest)

\* C11: with a timeout configured, a read_until for a needle that never
\* appears, on a source that never reaches end-of-stream, eventually returns
\* Error::Timeout; and no call returns Error::Timeout before the clock is
\* past the timeout.
C11_EventuallyTimeout ==
    /\ HopelessCall ~> (pc = "ret" /\ result.kind = "Timeout")
    /\ [](result.kind = "Timeout" => elapsed > timeout.d)

\* the call for EOF on a source that blocks for ever has timed out, one
\* interval past the timeout
C11_Witness ==
    /\ Ended("read_until") /\ needle = RUEOF
    /\ srcEnd = "block" /\ NoHangup /\ source = <<>>
    /\ result.kind = "Timeout" /\ elapsed = timeout.d + 1

----------------------------------------------------------------------------
(* C12 *)

\* the reader once everything the pump has sent or will still read from the
\* source has been sent, and a later call has drained the channel
OnceArrived(buf, e, q, src) == read_into_buffer(buf, e, q \o src)

\* C12: an iteration of read_until that returns Error::EOF or Error::Timeout
\* consumes nothing: nothing is handed to the caller, the buffer holds every
\* byte drained and not returned before, eof and timeout stay as the drain
\* left them and the reader stays usable; and a later call for a String that
\* is present in the bytes retained or still to arrive finds it once they
\* have arrived.
C12_FailureConsumesNothing ==
    [][(IterStep /\ result'.kind \in {"EOF", "Timeout"}) =>
          LET st == read_into_buffer(buffer, eof, queue)
              later == OnceArrived(buffer', eof', queue', source')
          IN /\ returned' = returned
             /\ buffer' = st.buffer
             /\ Unconsumed' = Unconsumed
             /\ eof' = st.eof /\ timeout' = timeout /\ alive'
             /\ \A n \in Needles :
                   (n.t = "String" /\ Occurrences(Unconsumed', n.s) # {})
                   => find(n, later.buffer, later.eof).some]_vars

----------------------------------------------------------------------------
(* C13 *)

\* C13: every call of try_read returns (it does not fail): it drains the
\* channel and gives None and leaves the buffer empty when the drained buffer
\* is empty, and otherwise gives the first char of the buffer, removes that
\* char only and so hands the stream to the caller in order.
C13_TryReadFirstChar ==
    [][TryReadStep =>
          LET st == read_into_buffer(buffer, eof, queue)
              c == TakeChars(st.buffer, 1)
          IN /\ pc' = "ret"
             /\ IF st.buffer = <<>>
                THEN /\ result' = RNone
                     /\ buffer' = <<>>
                     /\ returned' = returned
                ELSE /\ result' = RSome(DecodeChar(c))
                     /\ buffer' = SubSeq(st.buffer, Len(c) + 1, Len(st.buffer))
                     /\ returned' = returned \o c]_vars

----------------------------------------------------------------------------
(* C14 *)

\* this step drains the channel
DrainStep == IterStep \/ TryReadStep

\* the event sets eof: PipedChar::EOF, or an error with the hangup code
SetsEof(ev) == ev.k = "EOF" \/ (ev.k = "Err" /\ ev.v = HangupErrno)

\* C14: eof never goes back from true to false, not even inside one drain:
\* no step resets it, and a drain that takes an event that sets eof ends
\* with eof set, whatever events follow that one in the channel.
C14_EofMonotonic ==
    [][/\ eof => eof'
       /\ (DrainStep /\ \E i \in DOMAIN queue : SetsEof(queue[i])) => eof']_vars

----------------------------------------------------------------------------
(* C15 *)

\* C15: once eof is set the pump is silent: from a state in which the reader
\* has eof set, no step reads from the source or puts an event on the channel.
C15_PumpSilentAfterEof ==
    [][eof => (pumped' = pumped /\ queue' = queue)]_vars

----------------------------------------------------------------------------
(* C16 *)

\* the positions of the channel that hold PipedChar::EOF
EofEvents == {i \in DOMAIN queue : queue[i].k = "EOF"}

\* the pending read of the pump returns: the source has something to give
ReadReturns == source # <<>> \/ srcEnd = "eof"

\* C16: the channel holds at most one EOF event, as its last event, and
\* only once the pump has left its loop; a pump that has left its loop
\* reads and sends nothing more; nothing is put on a channel whose Receiver
\* is gone; and a pump whose source ends, or whose Receiver is gone while
\* its read returns, eventually leaves its loop.
C16_PumpShutdown ==
    /\ [](/\ Cardinality(EofEvents) <= 1
          /\ EofEvents # {} => (EofEvents = {Len(queue)} /\ pump = "done"))
    /\ [][pump = "done" => (pump' = "done" /\ pumped' = pumped /\ source' = source
                                /\ (queue' = queue \/ queue' = <<>>))]_vars
    /\ [][~alive => queue' = queue]_vars
    /\ (pump = "run" /\ srcEnd = "eof") ~> (pump = "done")
    /\ (pump = "run" /\ ~alive /\ ReadReturns) ~> (pump = "done")

\* the pump has ended on a failed send, part of the source unread and no EOF sent
C16_Witness ==
    /\ pump = "done" /\ ~alive
    /\ EofEvents = {} /\ source # <<>> /\ pumped # <<>>

----------------------------------------------------------------------------
(* C17 *)

\* a is what is left of b after something was taken from its front
IsSuffix(a, b) ==
    Len(a) <= Len(b) /\ a = SubSeq(b, Len(b) - Len(a) + 1, Len(b))

\* a is what b was before something was added at its end
IsPrefix(a, b) ==
    Len(a) <= Len(b) /\ a = SubSeq(b, 1, Len(a))

\* C17: once eof is set, it stays set, no step takes an event from the
\* channel (whatever the pump still adds to it), and the buffer only loses
\* text at its front: it never grows.
C17_DrainNoOpAfterEof ==
    [][eof => /\ eof'
              /\ IsPrefix(queue, queue')
              /\ IsSuffix(buffer', buffer)]_vars

\* a try_read found eof set and an empty buffer and left the text that waits
\* in the channel where it is
C17_Witness ==
    /\ Ended("try_read") /\ result = RNone
    /\ eof /\ source = <<>>
    /\ callRest # <<>> /\ BytesOf(queue) # <<>>

----------------------------------------------------------------------------
(* C18 *)

\* C18: an iteration of read_until whose drained buffer holds a match returns
\* Ok((text before the match, the match)), whether or not eof is set and
\* whatever the clock shows; and one that finds no match while eof is set
\* returns Error::EOF, not Error::Timeout, whatever the clock shows.
C18_OutcomePriority ==
    [][IterStep =>
          LET st == read_into_buffer(buffer, eof, queue)
              m == find(needle, st.buffer, st.eof)
          IN /\ m.some => /\ pc' = "ret"
                          /\ result' = ROk(SubSeq(st.buffer, 1, m.start),
                                           SubSeq(st.buffer, m.start + 1, m.end))
             /\ (~m.some /\ st.eof) => (pc' = "ret" /\ result'.kind = "EOF")]_vars

----------------------------------------------------------------------------
(* C19 *)

\* the source reports the end of the stream at some time: its script ends
\* with Ok(0), or one of its reads fails with the hangup code
SourceEnds == srcEnd = "eof" \/ ~NoHangup

\* C19: on a reader without a timeout whose source reports the end of the
\* stream at some time, with pump and consumer scheduled fairly, every
\* read_until call comes to an end: it does not stay in its loop for ever.
\* (The claim asks for more, a return with a match or with Error::EOF; the
\* code does not even give this much.)
C19_ReadUntilReturns ==
    (pc = "loop" /\ op = "read_until" /\ ~timeout.some /\ SourceEnds)
        ~> (pc # "loop")

----------------------------------------------------------------------------
(* C20 *)

\* C20: every byte read from the source is one char of the buffer and one
\* unit of its length: an iteration of read_until(NBytes(n)) whose drained
\* buffer holds at least n chars returns exactly the first n of them and
\* leaves the others, and a try_read on a buffer that is not empty returns
\* its first char, whatever the byte values are.
C20_OneByteOneChar ==
    [][LET st == read_into_buffer(buffer, eof, queue)
       IN /\ (IterStep /\ needle.t = "NBytes" /\ CharCount(st.buffer) >= needle.n)
                => LET chunk == TakeChars(st.buffer, needle.n)
                   IN /\ pc' = "ret"
                      /\ result' = ROk(<<>>, chunk)
                      /\ buffer' = SubSeq(st.buffer, Len(chunk) + 1, Len(st.buffer))
          /\ (TryReadStep /\ st.buffer # <<>>)
                => /\ pc' = "ret"
                   /\ result'.kind = "Some"
                   /\ result'.ch = DecodeChar(TakeChars(st.buffer, 1))]_vars

====
